---- MODULE Spec2Model ----
(***************************************************************************)
(* Model of datasette/database.py: the Database handle, its thread-local   *)
(* connection cache, the time-limited execute(), table_counts() and the    *)
(* schema introspection calls.                                             *)
(*                                                                         *)
(* An optional integer (a Python value that may be None) is a sequence:    *)
(* <<>> is None and <<v>> is the integer v.                                 *)
(***************************************************************************)
EXTENDS Integers, Sequences, FiniteSets, TLC

\* ---------------------------------------------------------------- bounds
MaxPage  == 1   \* page sizes and max_returned_rows range over 0..MaxPage
MaxLimit == 2   \* time limits (ms) range up to MaxLimit

MaxRows == MaxPage + 3      \* rows a user statement may yield
MaxCost == MaxLimit + 1     \* running time of a statement (ms)

\* ------------------------------------------------- processes and handles
Workers   == {"w1", "w2"}                \* threads of ds.executor
Callers   == {"c1", "c2"}                \* coroutines on the event loop
Databases == {"d1", "d2", "d3", "d4"}    \* registered Database handles

None   == "None"
NoInt  == <<>>
Opt(S) == {NoInt} \cup {<<v>> : v \in S}

\* Python truthiness of an optional integer: None and 0 are falsy.
Truthy(o) == o # NoInt /\ o[1] # 0
\* Python's  a or b  for an optional integer a and an integer b.
OrElse(o, b) == IF Truthy(o) THEN o[1] ELSE b

Min(a, b) == IF a < b THEN a ELSE b
Take(s, k) == SubSeq(s, 1, Min(Len(s), k))

\* ----------------------------------------------- Database.__init__ fields
\* A path is its directory, the stem of its file name and the suffix.
\* d3 is constructed without a path; d4 is a memory database that is given
\* a path and is not mutable.
path ==
    [d \in Databases |->
        CASE d = "d1" -> [dir |-> "a", stem |-> "x", suffix |-> "db"]
          [] d = "d2" -> [dir |-> "b", stem |-> "x", suffix |-> "db"]
          [] d = "d4" -> [dir |-> "c", stem |-> "y", suffix |-> "db"]
          [] OTHER    -> [dir |-> "",  stem |-> "",  suffix |-> ""]]
is_memory  == [d \in Databases |-> d \in {"d3", "d4"}]
is_mutable == [d \in Databases |-> d \in {"d2", "d3"}]

\* The files: inspect_hash(p), and p.stat().st_size in bytes.
FileHash(p) == <<p.dir, p.stem>>
FileSize(p) == IF p.dir = "a" THEN 3 ELSE IF p.dir = "b" THEN 4 ELSE 5

\* pathlib's Path(p).stem: the final component without its suffix.
Stem(p) == p.stem

\* Database.name
name(d) == IF is_memory[d] THEN ":memory:" ELSE Stem(path[d])

Names == {name(d) : d \in Databases}

\* Database.connect: the target the engine is asked to open.
connect(d) ==
    IF is_memory[d] THEN [file |-> ":memory:", qs |-> ""]
    ELSE [file |-> path[d],
          qs   |-> IF is_mutable[d] THEN "mode=ro" ELSE "immutable=1"]

\* ------------------------------------------------------ the stored data
\* The catalog of each database: its tables in catalog order; the number
\* of rows of each table, and the time (ms) it takes to count them.
Catalog ==
    [d \in Databases |->
        CASE d = "d1" -> <<"a", "b">>
          [] d = "d2" -> <<"a">>
          [] OTHER    -> <<>>]
RowCount(d, t)  == IF d = "d1" /\ t = "b" THEN 30 ELSE 10
CountCost(d, t) == IF d = "d1" /\ t = "b" THEN 2 ELSE 1
ListingCost(d)  == IF d = "d2" THEN 2 ELSE 1

Range(s) == {s[i] : i \in 1..Len(s)}
TableNames == UNION {Range(Catalog[d]) : d \in Databases}

VARIABLES
    ds,                   \* the host application's configuration
    connections,          \* threading.local(): worker -> name -> connection
    conns,                \* the connections each worker opened, by name
    queue,                \* tasks submitted to ds.executor, not yet started
    wk,                   \* each worker thread's position and task
    cl,                   \* each caller's position and call
    cached_table_counts,  \* Database.cached_table_counts
    hash,                 \* Database.hash
    cached_size,          \* Database.cached_size
    ic                    \* the last schema introspection call

vars == <<ds, connections, conns, queue, wk, cl, cached_table_counts,
          hash, cached_size, ic>>

\* ------------------------------------------------------------ values
\* A statement: the table listing, a count of one table, or a statement
\* of the caller, which yields n rows and takes cost ms to run.
Sql(kind, arg, n, cost) == [kind |-> kind, arg |-> arg, n |-> n, cost |-> cost]
table_names_sql   == Sql("table_names", "", 0, 0)
count_sql(t)      == Sql("count", t, 0, 0)
user_sql(n, cost) == Sql("user", "q", n, cost)
NoSql             == Sql("", "", 0, 0)
Params          == {None, "p1"}

\* An engine error is its class and its args; an exception that reaches a
\* caller also has the fields QueryInterrupted adds.
Err(type, msg) == [type |-> type, msg |-> msg]
NoErr          == Err("", "")
Interrupted    == Err("OperationalError", "interrupted")
LogicError     == Err("OperationalError", "SQL logic error")
SpuriousErrors == {LogicError,
                   Err("DatabaseError", "malformed"),
                   Err("InterfaceError", "binding")}
HookError      == Err("OperationalError", "extension")

Exc(type, msg, e, sql, params) ==
    [type |-> type, msg |-> msg, e |-> e, sql |-> sql, params |-> params]
NoExc      == Exc("", "", NoErr, NoSql, None)
Plain(err) == Exc(err.type, err.msg, NoErr, NoSql, None)
\* utils.QueryInterrupted(e, sql, params)
QueryInterrupted(e, sql, params) == Exc("QueryInterrupted", "", e, sql, params)

\* What a task or a call ends with.
Out(kind, rows, truncated, exc) ==
    [kind |-> kind, rows |-> rows, truncated |-> truncated, exc |-> exc]
NoOut          == Out("none", <<>>, FALSE, NoExc)
\* utils.Results(rows, truncated, description)
Results(rows, truncated) == Out("return", rows, truncated, NoExc)
Raise(exc)     == Out("raise", <<>>, FALSE, exc)

\* What the engine did for a statement: how long it ran, the error it
\* raised if any, and the rows the statement yields.
Eng(cost, err, rows) == [cost |-> cost, err |-> err, rows |-> rows]
NoEng == Eng(0, NoErr, <<>>)

Iota(n) == [i \in 1..n |-> i]

Task(c, d, fn, sql, params, truncate, ctl, page_size, log) ==
    [caller |-> c, db |-> d, fn |-> fn, sql |-> sql, params |-> params,
     truncate |-> truncate, custom_time_limit |-> ctl,
     page_size |-> page_size, log_sql_errors |-> log]
NoTask == Task("", "", "", NoSql, None, FALSE, NoInt, 0, FALSE)

\* The arguments of one execute() call.
Args(sql, params, truncate, ctl, page_size, log) ==
    [sql |-> sql, params |-> params, truncate |-> truncate,
     custom_time_limit |-> ctl, page_size |-> page_size,
     log_sql_errors |-> log]
NoArgs == Args(NoSql, None, FALSE, NoInt, NoInt, TRUE)
\* execute()'s defaults, with the given statement and custom_time_limit
DefaultArgs(sql, ctl) == Args(sql, None, FALSE, ctl, NoInt, TRUE)

\* The calls of the sequential specification: a statement of every size
\* with every truncate and page_size; a statement of every cost with every
\* custom_time_limit; a fast and a slow statement with every params and
\* log_sql_errors.
AllArgs ==
    {Args(user_sql(n, 0), None, t, NoInt, g, TRUE) :
        n \in 0..MaxRows, t \in BOOLEAN, g \in Opt(0..MaxPage)}
    \cup
    {Args(user_sql(1, k), None, FALSE, c, NoInt, TRUE) :
        k \in 0..MaxCost, c \in Opt(0..MaxLimit)}
    \cup
    {Args(user_sql(2, k), p, FALSE, NoInt, NoInt, l) :
        k \in {0, MaxCost}, p \in Params, l \in BOOLEAN}
\* The calls of the concurrent specification: a statement that takes 2 ms,
\* with and without a custom_time_limit of 1 ms.
FewArgs ==
    {Args(user_sql(1, 2), None, FALSE, c, NoInt, TRUE) : c \in {NoInt, <<1>>}}

\* --------------------------------------- execute(): the pure computations
\* page_size = page_size or self.ds.page_size
effective_page_size(page_size, default) == OrElse(page_size, default)

\* The deadline sql_operation_in_thread arms.
time_limit_ms(sql_time_limit_ms, custom_time_limit) ==
    IF Truthy(custom_time_limit) /\ custom_time_limit[1] < sql_time_limit_ms
    THEN custom_time_limit[1]
    ELSE sql_time_limit_ms

\* fetch with max_returned_rows left as configured when it equals page_size
fetch_no_bump(all, max_returned_rows_cfg, page_size, truncate) ==
    IF max_returned_rows_cfg # 0 /\ truncate
    THEN LET rows == Take(all, max_returned_rows_cfg + 1)
         IN  [rows      |-> Take(rows, max_returned_rows_cfg),
              truncated |-> Len(rows) > max_returned_rows_cfg]
    ELSE [rows |-> all, truncated |-> FALSE]

\* The rows fetched from a cursor that yields the rows all:
\* fetchmany(max_returned_rows + 1), cut to max_returned_rows; or fetchall().
fetch(all, max_returned_rows_cfg, page_size, truncate) ==
    LET max_returned_rows ==
            IF max_returned_rows_cfg = page_size
            THEN max_returned_rows_cfg + 1
            ELSE max_returned_rows_cfg
    IN  IF max_returned_rows # 0 /\ truncate
        THEN LET rows == Take(all, max_returned_rows + 1)
             IN  [rows      |-> Take(rows, max_returned_rows),
                  truncated |-> Len(rows) > max_returned_rows]
        ELSE [rows |-> all, truncated |-> FALSE]

\* The except clause: the exception that leaves the try block for the
\* engine error e, and whether the error was printed.
CaughtTypes == {"OperationalError", "DatabaseError"}
\* classify with every caught error taken for an interruption
classify_all_interrupted(e, sql, params, log_sql_errors) ==
    IF e.type \in CaughtTypes
    THEN [exc |-> QueryInterrupted(e, sql, params), printed |-> FALSE]
    ELSE [exc |-> Plain(e), printed |-> FALSE]
classify(e, sql, params, log_sql_errors) ==
    IF e.type \in CaughtTypes
    THEN IF e.msg = "interrupted"
         THEN [exc |-> QueryInterrupted(e, sql, params), printed |-> FALSE]
         ELSE [exc |-> Plain(e), printed |-> log_sql_errors]
    ELSE [exc |-> Plain(e), printed |-> FALSE]

\* What sql_operation_in_thread(conn) ends with, given what the engine did.
sql_operation_outcome(task, eng, cfg) ==
    IF eng.err # NoErr
    THEN Raise(classify(eng.err, task.sql, task.params,
                        task.log_sql_errors).exc)
    ELSE LET f == fetch(eng.rows, cfg.max_returned_rows, task.page_size,
                        task.truncate)
         IN  IF task.truncate
             THEN Results(f.rows, f.truncated)
             ELSE Results(f.rows, FALSE)

\* utils.sqlite_timelimit(conn, ms): entering the block arms the connection's
\* progress handler with the deadline, leaving it disarms the handler.
sqlite_timelimit_enter(handler, ms) == <<ms>>
sqlite_timelimit_exit(handler) == NoInt
\* The armed handler interrupts a statement that runs past the deadline.
Interrupts(handler, cost) == handler # NoInt /\ cost > handler[1]

\* leave_with with the handler disarmed only after the try block returns
leave_with_on_return(handler, out) ==
    IF out.kind = "raise" THEN handler ELSE sqlite_timelimit_exit(handler)

\* The with statement around the try block: the block is left through
\* sqlite_timelimit's exit whether it returns or raises.
leave_with(handler, out) == sqlite_timelimit_exit(handler)

\* ------------------------------------------------------------ the engine
\* What a statement does on a connection opened on database e when nothing
\* stops it: the time it takes, and the rows it yields or the error it
\* raises.
Natural(sql, e) ==
    CASE sql.kind = "table_names" -> Eng(ListingCost(e), NoErr, Catalog[e])
      [] sql.kind = "count" ->
            IF sql.arg \in Range(Catalog[e])
            THEN Eng(CountCost(e, sql.arg), NoErr, <<RowCount(e, sql.arg)>>)
            ELSE Eng(0, Err("OperationalError", "no such table"), <<>>)
      [] OTHER -> Eng(sql.cost, NoErr, Iota(sql.n))

\* EngineRun with a statement interrupted by the deadline armed on any
\* connection
EngineRun_any_deadline(sql, e, handler, fault) ==
    LET r == Natural(sql, e)
        armed == UNION {{conns[w][n][i].handler : i \in 1..Len(conns[w][n])} :
                            w \in Workers, n \in Names} \ {NoInt}
    IN  IF \E h \in armed : r.cost > h[1] THEN Eng(r.cost, Interrupted, <<>>)
        ELSE IF fault # NoErr THEN Eng(r.cost, fault, <<>>)
        ELSE r

\* How the engine runs the statement under the armed handler when the
\* environment injects the error fault (NoErr: none): the statement is
\* interrupted when it runs past the deadline, and otherwise fails with the
\* injected error or does what it does.
EngineRun(sql, e, handler, fault) ==
    LET r == Natural(sql, e)
    IN  IF Interrupts(handler, r.cost) THEN Eng(r.cost, Interrupted, <<>>)
        ELSE IF fault # NoErr THEN Eng(r.cost, fault, <<>>)
        ELSE r

\* ------------------------------------------------- schema introspection
\* An introspection call: the operation, what the host and the engine
\* answered to it, and what it returned or raised.
Call(op, in, ret) == [op |-> op, in |-> in, ret |-> ret]
NoCall == Call("", <<>>, <<>>)
Return(v) == [kind |-> "return", value |-> v]
RaiseError(type) == [kind |-> "raise", value |-> type]

\* Column names, and the label columns a table's metadata may configure.
MaxCols == 3
ColNames == {"id", "pk", "name", "title", "a"}
Distinct(seq) == \A i, j \in 1..Len(seq) : i # j => seq[i] # seq[j]
Lists(S, n) == {seq \in UNION {[1..k -> S] : k \in 0..n} : Distinct(seq)}
Columns == Lists(ColNames, MaxCols)
LabelChoices == {None, "", "z"}

\* [c for c in seq if c in S]  when in is TRUE, and
\* [c for c in seq if c not in S]  when it is FALSE.
RECURSIVE Filter(_, _, _)
Filter(seq, S, in) ==
    IF seq = <<>> THEN <<>>
    ELSE (IF (Head(seq) \in S) = in THEN <<Head(seq)>> ELSE <<>>)
            \o Filter(Tail(seq), S, in)

\* label_column_for_table(table), given the label_column of the table's
\* metadata and the columns table_columns() lists.
label_column(explicit_label_column, column_names) ==
    IF explicit_label_column \notin {None, ""}
    THEN Return(explicit_label_column)
    ELSE LET name_or_title == Filter(column_names, {"name", "title"}, TRUE)
         IN  IF name_or_title # <<>> THEN Return(name_or_title[1])
             ELSE IF /\ column_names # <<>>
                     /\ Len(column_names) = 2
                     /\ ("id" \in Range(column_names)
                            \/ "pk" \in Range(column_names))
             THEN LET others == Filter(column_names, {"id", "pk"}, FALSE)
                  IN  IF others = <<>> THEN RaiseError("IndexError")
                      ELSE Return(others[1])
             ELSE Return(None)

\* A table name is the sequence of its parts: docs_fts_content is
\* <<"docs", "_fts", "_content">>.
MaxTables == 3
TableUniverse ==
    {<<"docs">>, <<"docs", "_fts">>, <<"docs", "_fts", "_content">>,
     <<"idx_", "a">>,
     <<"spatial_ref_sys">>, <<"spatial_ref_sys", "_aux">>}
\* The catalogs: the tables in the order table_names() lists them.
Catalogs == Lists(TableUniverse, MaxTables)
\* The tables that db_metadata["tables"] flags hidden, in its order.
MetadataHidden == {<<>>, << <<"ghost">>, <<"docs">> >>}

SpatialiteTables ==
    << <<"ElementaryGeometries">>, <<"SpatialIndex">>, <<"geometry_columns">>,
       <<"spatial_ref_sys">>, <<"spatialite_history">>,
       <<"sql_statements_log">>, <<"sqlite_sequence">>,
       <<"views_geometry_columns">>, <<"virts_geometry_columns">> >>

\* select name from sqlite_master where name like "idx_%" and type = "table"
idx_tables(catalog) == Filter(catalog, {t \in Range(catalog) : t[1] = "idx_"}, TRUE)

\* startswith that holds of the whole name only
startswith_whole(table_name, hidden_table) == table_name = hidden_table

\* table_name.startswith(hidden_table)
startswith(table_name, hidden_table) ==
    /\ Len(hidden_table) <= Len(table_name)
    /\ SubSeq(table_name, 1, Len(hidden_table)) = hidden_table

\* for hidden_table in hidden_tables[:]: the copy is what is left of the
\* list as it was when the loop began, and hidden_tables what it has grown
\* to.
RECURSIVE hidden_inner(_, _, _)
hidden_inner(table_name, copy, hidden_tables) ==
    IF copy = <<>> THEN hidden_tables
    ELSE hidden_inner(table_name, Tail(copy),
            IF startswith(table_name, Head(copy))
            THEN Append(hidden_tables, table_name)
            ELSE hidden_tables)

\* for table_name in await self.table_names()
RECURSIVE hidden_outer(_, _)
hidden_outer(table_names, hidden_tables) ==
    IF table_names = <<>> THEN hidden_tables
    ELSE hidden_outer(Tail(table_names),
            hidden_inner(Head(table_names), hidden_tables, hidden_tables))

\* hidden_table_names(), given the FTS virtual tables, whether Spatialite
\* is detected, the tables the metadata hides and the catalog.
hidden_tables_of(fts, has_spatialite, metadata_hidden, table_names) ==
    hidden_outer(table_names,
        fts
        \o (IF has_spatialite
            THEN SpatialiteTables \o idx_tables(table_names)
            ELSE <<>>)
        \o metadata_hidden)

\* A row of sqlite_master: its type, name, tbl_name and sql.  A text is the
\* sequence of its pieces; sql is <<text>>, or <<>> when it is NULL.
Object(type, nm, tbl_name, sql) ==
    [type |-> type, name |-> nm, tbl_name |-> tbl_name, sql |-> sql]
MaxObjects == 4
ObjectUniverse ==
    {Object("table", "t", "t", << <<"create table t">> >>),
     Object("index", "i1", "t", << <<"create index i1">> >>),
     Object("index", "sqlite_autoindex_t_1", "t", <<>>),
     Object("index", "i2", "t", << <<"create index i2">> >>),
     Object("table", "u", "u", << <<"create table u">> >>),
     Object("index", "j", "u", << <<"create index j">> >>),
     Object("view", "v", "v", << <<"create view v">> >>)}
\* The schemas: the rows of sqlite_master in catalog order, every index
\* with its table.
Schemas ==
    {sch \in Lists(ObjectUniverse, MaxObjects) :
        \A i \in 1..Len(sch) :
            sch[i].type = "index" =>
                \E j \in 1..Len(sch) :
                    sch[j].type = "table" /\ sch[j].name = sch[i].tbl_name}

\* The rows of a query, each row the sql of a catalog row that matches.
RECURSIVE SelectSql(_, _)
SelectSql(sch, matching) ==
    IF sch = <<>> THEN <<>>
    ELSE (IF Head(sch) \in matching THEN <<Head(sch).sql>> ELSE <<>>)
            \o SelectSql(Tail(sch), matching)

\* select sql from sqlite_master where name = :n and type=:t
definition_rows(sch, n, t) ==
    SelectSql(sch, {o \in Range(sch) : o.name = n /\ o.type = t})

\* index_rows with the indexes of every table
index_rows_any_table(sch, n) ==
    SelectSql(sch, {o \in Range(sch) : o.type = "index" /\ o.sql # <<>>})

\* select sql from sqlite_master where tbl_name = :n and type='index'
\* and sql is not null
index_rows(sch, n) ==
    SelectSql(sch, {o \in Range(sch) :
                        o.tbl_name = n /\ o.type = "index" /\ o.sql # <<>>})

\* [row[0] + ";" for row in rows]
RECURSIVE Terminated(_)
Terminated(rows) ==
    IF rows = <<>> THEN <<>>
    ELSE <<Append(Head(rows)[1], ";")>> \o Terminated(Tail(rows))

\* "\n".join(bits)
RECURSIVE Join(_)
Join(bits) ==
    IF bits = <<>> THEN <<>>
    ELSE IF Len(bits) = 1 THEN bits[1]
    ELSE bits[1] \o <<"\n">> \o Join(Tail(bits))

\* get_table_definition(table, type_) on the schema sch: None is <<>>, and
\* a string is <<text>>.
table_definition(sch, table, type_) ==
    LET table_definition_rows == definition_rows(sch, table, type_)
    IN  IF table_definition_rows = <<>> THEN Return(NoInt)
        ELSE LET bits == Terminated(<<table_definition_rows[1]>>)
                            \o Terminated(index_rows(sch, table))
             IN  Return(<<Join(bits)>>)

\* ------------------------------------------------------------- the state
\* A connection is named by the worker that opened it, the name it was
\* opened under and its position among the connections so opened.
ConnId(w, n, i) == [w |-> w, n |-> n, i |-> i]
NoConn == ConnId("", "", 0)
ConnRec(k) == conns[k.w][k.n][k.i]

Conn(d, w) ==
    [db |-> d, worker |-> w, target |-> connect(d),
     hook_calls |-> 0, hook_name |-> "", hook_first |-> TRUE,
     used |-> FALSE, handler |-> NoInt]

W(pc, task, conn, out, eng, printed) ==
    [pc |-> pc, task |-> task, conn |-> conn, out |-> out, eng |-> eng,
     printed |-> printed]
IdleWorker == W("idle", NoTask, NoConn, NoOut, NoEng, FALSE)

C(pc, op, d, args, limit, phase, tables, counts, ret) ==
    [pc |-> pc, op |-> op, db |-> d, args |-> args, limit |-> limit,
     phase |-> phase,
     tables |-> tables, counts |-> counts, ret |-> ret]
NoCounts == <<>>

\* ds.inspect_data: for each database name, the counts of its tables, or
\* nothing.
NoInspect == [n \in Names |-> <<>>]
InspectChoices ==
    {NoInspect,
     [n \in Names |-> IF n = "x" THEN <<[t \in {"a", "b"} |-> 2]>> ELSE <<>>]}

Configs ==
    [page_size : 0..MaxPage, max_returned_rows : 0..MaxPage,
     sql_time_limit_ms : 1..MaxLimit, inspect_data : InspectChoices]

\* Database.__init__: cached_table_counts of a database that is not
\* mutable is seeded from ds.inspect_data[self.name] when that exists.
init_cached_table_counts(d, cfg) ==
    IF ~is_mutable[d] /\ cfg.inspect_data[name(d)] # <<>>
    THEN LET tables == cfg.inspect_data[name(d)][1]
         IN  <<[t \in DOMAIN tables |-> <<tables[t]>>]>>
    ELSE <<>>

\* Database.__init__: hash and cached_size of a database that is not
\* mutable are computed from the file at its path.
NoHash == <<>>
init_hash(d) == IF ~is_mutable[d] THEN FileHash(path[d]) ELSE NoHash
init_cached_size(d) == IF ~is_mutable[d] THEN <<FileSize(path[d])>> ELSE NoInt

\* Database.size
size(d) ==
    IF is_memory[d] THEN 0
    ELSE IF cached_size[d] # NoInt THEN cached_size[d][1]
    ELSE FileSize(path[d])

\* The state once the databases of configuration cfg are constructed.
Constructed(cfg) ==
    /\ ds = cfg
    /\ connections = [w \in Workers |-> [n \in Names |-> NoConn]]
    /\ conns = [w \in Workers |-> [n \in Names |-> <<>>]]
    /\ queue = <<>>
    /\ wk = [w \in Workers |-> IdleWorker]
    /\ cl = [c \in Callers |->
                C("idle", "", "", NoArgs, 0, "", <<>>, NoCounts, NoOut)]
    /\ cached_table_counts =
            [d \in Databases |-> init_cached_table_counts(d, cfg)]
    /\ hash = [d \in Databases |-> init_hash(d)]
    /\ cached_size = [d \in Databases |-> init_cached_size(d)]
    /\ ic = NoCall

\* One configuration of the limits, with inspect data.
Init ==
    \E cfg \in Configs :
        /\ cfg.inspect_data # NoInspect
        /\ cfg.page_size = MaxPage
        /\ cfg.max_returned_rows = MaxPage
        /\ cfg.sql_time_limit_ms = MaxLimit
        /\ Constructed(cfg)

\* Every configuration of the limits, without inspect data.
InitSeq ==
    \E cfg \in Configs : cfg.inspect_data = NoInspect /\ Constructed(cfg)

\* ------------------------------------------------------ the facade calls
CanCall(c) == cl[c].pc \in {"idle", "returned"}

\* execute(), up to the await: the page size is resolved and the task
\* sql_operation_in_thread is handed to the executor.
execute_task(c, d, a, cfg) ==
    Task(c, d, "sql", a.sql, a.params, a.truncate, a.custom_time_limit,
         effective_page_size(a.page_size, cfg.page_size), a.log_sql_errors)

execute(c, d, a) ==
    /\ CanCall(c)
    /\ queue' = Append(queue, execute_task(c, d, a, ds))
    /\ cl' = [cl EXCEPT ![c] =
                C("await", "execute", d, a, 0, "", <<>>, NoCounts, NoOut)]
    /\ UNCHANGED <<hash, cached_size, ic>>
    /\ UNCHANGED <<ds, connections, conns, wk, cached_table_counts>>

\* table_columns(), primary_keys(), fts_table(), foreign_keys_for_table(),
\* get_all_foreign_keys(), get_outbound_foreign_keys(): a catalog reader is
\* handed to the executor.
reader(c, d) ==
    /\ CanCall(c)
    /\ queue' = Append(queue,
                    Task(c, d, "reader", NoSql, None, FALSE, NoInt, 0, FALSE))
    /\ cl' = [cl EXCEPT ![c] =
                C("await", "reader", d, NoArgs, 0, "", <<>>, NoCounts, NoOut)]
    /\ UNCHANGED <<hash, cached_size, ic>>
    /\ UNCHANGED <<ds, connections, conns, wk, cached_table_counts>>

\* table_counts that never returns the cached counts
table_counts_ignore_cache(c, d, limit) ==
    /\ CanCall(c)
    /\ queue' = Append(queue,
            execute_task(c, d, DefaultArgs(table_names_sql, NoInt), ds))
    /\ cl' = [cl EXCEPT ![c] =
                C("await", "table_counts", d,
                  DefaultArgs(table_names_sql, NoInt), limit, "names",
                  <<>>, NoCounts, NoOut)]
    /\ UNCHANGED <<hash, cached_size, ic>>
    /\ UNCHANGED <<ds, connections, conns, wk, cached_table_counts>>

\* table_counts(limit), up to its first await: the cached counts are
\* returned, or table_names() executes the table listing.
table_counts(c, d, limit) ==
    /\ CanCall(c)
    /\ IF ~is_mutable[d] /\ cached_table_counts[d] # <<>>
       THEN /\ cl' = [cl EXCEPT ![c] =
                        C("returned", "table_counts", d, NoArgs, limit, "cached",
                          <<>>, cached_table_counts[d][1],
                          Results(<<>>, FALSE))]
            /\ UNCHANGED queue
       ELSE /\ queue' = Append(queue,
                    execute_task(c, d, DefaultArgs(table_names_sql, NoInt),
                                 ds))
            /\ cl' = [cl EXCEPT ![c] =
                        C("await", "table_counts", d,
                          DefaultArgs(table_names_sql, NoInt), limit, "names",
                          <<>>, NoCounts, NoOut)]
    /\ UNCHANGED <<hash, cached_size, ic>>
    /\ UNCHANGED <<ds, connections, conns, wk, cached_table_counts>>

\* ------------------------------------------------------ the worker threads
\* lookup in one namespace shared by every thread
lookup_shared(w, n) ==
    IF \E v \in Workers : connections[v][n] # NoConn
    THEN connections[CHOOSE v \in Workers : connections[v][n] # NoConn][n]
    ELSE NoConn

\* getattr(connections, self.name, None) in the thread of worker w
lookup(w, n) == connections[w][n]

\* ds.prepare_connection(conn, name): the host's hook is invoked on conn.
prepare_connection(conn, n) ==
    [conn EXCEPT !.hook_calls = @ + 1, !.hook_name = n]

\* open_connection without the call of the hook
open_connection_unprepared(d, w) == Conn(d, w)

\* conn = self.connect(); self.ds.prepare_connection(conn, self.name)
open_connection(d, w) == prepare_connection(Conn(d, w), name(d))

\* in_thread(), up to fn(conn): a free worker takes the next task and looks
\* its connection up by the database's name; when there is none it opens
\* one, calls ds.prepare_connection(conn, self.name) and stores it.  The
\* hook may raise, and then nothing is stored and the connection is lost.
in_thread(w) ==
    /\ wk[w].pc = "idle"
    /\ queue # <<>>
    /\ queue' = Tail(queue)
    /\ LET task == Head(queue)
           n    == name(task.db)
           conn == lookup(w, n)
           new  == ConnId(w, n, Len(conns[w][n]) + 1)
       IN  IF conn = NoConn
           THEN \/ /\ conns' = [conns EXCEPT ![w][n] =
                                    Append(@, open_connection(task.db, w))]
                   /\ connections' = [connections EXCEPT ![w][n] = new]
                   /\ wk' = [wk EXCEPT ![w] =
                                W("fn", task, new, NoOut, NoEng, FALSE)]
                \/ /\ wk' = [wk EXCEPT ![w] =
                                W("done", task, NoConn,
                                  Raise(Plain(HookError)), NoEng, FALSE)]
                   /\ UNCHANGED <<connections, conns>>
           ELSE /\ wk' = [wk EXCEPT ![w] =
                            W("fn", task, conn, NoOut, NoEng, FALSE)]
                /\ UNCHANGED <<connections, conns>>
    /\ UNCHANGED <<hash, cached_size, ic>>
    /\ UNCHANGED <<ds, cl, cached_table_counts>>

\* sql_operation_in_thread(conn), entering the with block: the deadline is
\* resolved and armed on the connection.
sql_operation_enter(w) ==
    /\ wk[w].pc = "fn"
    /\ wk[w].task.fn = "sql"
    /\ LET ms == time_limit_ms(ds.sql_time_limit_ms,
                               wk[w].task.custom_time_limit)
           k  == wk[w].conn
       IN  conns' = [conns EXCEPT ![k.w][k.n][k.i].handler =
                        sqlite_timelimit_enter(@, ms)]
    /\ wk' = [wk EXCEPT ![w].pc = "armed"]
    /\ UNCHANGED <<hash, cached_size, ic>>
    /\ UNCHANGED <<ds, connections, queue, cl, cached_table_counts>>

\* sql_operation_in_thread(conn), the with block and the return: the
\* statement runs under the armed handler, the rows are fetched or the
\* error is classified, the with block is left.
sql_operation_run(w, fault) ==
    /\ wk[w].pc = "armed"
    /\ LET k    == wk[w].conn
           task == wk[w].task
           eng  == EngineRun(task.sql, ConnRec(k).db, ConnRec(k).handler,
                             fault)
       IN     LET out == sql_operation_outcome(task, eng, ds)
                  printed ==
                      /\ eng.err # NoErr
                      /\ classify(eng.err, task.sql, task.params,
                                  task.log_sql_errors).printed
              IN  /\ conns' = [conns EXCEPT ![k.w][k.n][k.i] =
                                [@ EXCEPT
                                    !.handler = leave_with(@, out),
                                    !.hook_first = @ /\ ConnRec(k).hook_calls > 0,
                                    !.used = TRUE]]
                  /\ wk' = [wk EXCEPT ![w] =
                                W("done", task, k, out, eng, printed)]
    /\ UNCHANGED <<hash, cached_size, ic>>
    /\ UNCHANGED <<ds, connections, queue, cl, cached_table_counts>>

\* fn(conn) for a catalog reader (utils.table_columns and the like): it
\* runs on the connection with no deadline, and may fail.
reader_run(w, fault) ==
    /\ wk[w].pc = "fn"
    /\ wk[w].task.fn = "reader"
    /\ LET k == wk[w].conn
       IN  /\ conns' = [conns EXCEPT ![k.w][k.n][k.i] =
                            [@ EXCEPT
                                !.hook_first = @ /\ ConnRec(k).hook_calls > 0,
                                !.used = TRUE]]
           /\ wk' = [wk EXCEPT ![w] =
                        W("done", wk[w].task, k,
                          IF fault = NoErr THEN Results(<<>>, FALSE)
                                           ELSE Raise(Plain(fault)),
                          Eng(0, fault, <<>>), FALSE)]
    /\ UNCHANGED <<hash, cached_size, ic>>
    /\ UNCHANGED <<ds, connections, queue, cl, cached_table_counts>>

\* ------------------------------------------------- the callers' resumption
\* The exceptions table_counts() turns into an unknown count.
CountFailures == {"QueryInterrupted", "OperationalError", "DatabaseError"}

\* table_counts_loop that stores the counts of every database
table_counts_loop_cache_always(c, me, tables, counts, cfg, cached) ==
    IF tables # <<>>
    THEN [cl    |-> [me EXCEPT !.pc = "await", !.phase = "count",
                        !.tables = tables, !.counts = counts,
                        !.args = DefaultArgs(count_sql(Head(tables)),
                                             <<me.limit>>)],
          task  |-> <<execute_task(c, me.db,
                        DefaultArgs(count_sql(Head(tables)), <<me.limit>>),
                        cfg)>>,
          cache |-> cached]
    ELSE [cl    |-> [me EXCEPT !.pc = "returned", !.phase = "computed",
                        !.tables = <<>>, !.counts = counts, !.args = NoArgs,
                        !.ret = Results(<<>>, FALSE)],
          task  |-> <<>>,
          cache |-> <<counts>>]

\* table_counts(), the for loop from the table at the head of tables: the
\* next count is executed with custom_time_limit=limit, or the loop is over,
\* the counts are cached when the database is not mutable, and returned.
\* The result is the caller's record, the task to submit if any, and the
\* new value of cached_table_counts[d].
table_counts_loop(c, me, tables, counts, cfg, cached) ==
    IF tables # <<>>
    THEN [cl    |-> [me EXCEPT !.pc = "await", !.phase = "count",
                        !.tables = tables, !.counts = counts,
                        !.args = DefaultArgs(count_sql(Head(tables)),
                                             <<me.limit>>)],
          task  |-> <<execute_task(c, me.db,
                        DefaultArgs(count_sql(Head(tables)), <<me.limit>>),
                        cfg)>>,
          cache |-> cached]
    ELSE [cl    |-> [me EXCEPT !.pc = "returned", !.phase = "computed",
                        !.tables = <<>>, !.counts = counts, !.args = NoArgs,
                        !.ret = Results(<<>>, FALSE)],
          task  |-> <<>>,
          cache |-> IF ~is_mutable[me.db] THEN <<counts>> ELSE cached]

\* table_counts() is left by the exception of out.
Raised(me, out) ==
    C("returned", me.op, me.db, NoArgs, me.limit, "raised", <<>>, NoCounts,
      out)

\* What the caller does when the awaited task ends with out.  A caller
\* that has returned keeps the outcome of its call.
resume(c, me, out, cfg, cached) ==
    CASE me.op = "table_counts" /\ me.phase = "names" ->
            \* for table in await self.table_names()
            IF out.kind = "raise"
            THEN [cl |-> Raised(me, out), task |-> <<>>, cache |-> cached]
            ELSE table_counts_loop(c, me, out.rows, NoCounts, cfg, cached)
      [] me.op = "table_counts" /\ me.phase = "count" ->
            \* counts[table] = (await self.execute(...)).rows[0][0]
            IF out.kind = "return"
            THEN table_counts_loop(c, me, Tail(me.tables),
                    (Head(me.tables) :> <<out.rows[1]>>) @@ me.counts,
                    cfg, cached)
            ELSE IF out.exc.type \in CountFailures
            THEN table_counts_loop(c, me, Tail(me.tables),
                    (Head(me.tables) :> NoInt) @@ me.counts, cfg, cached)
            ELSE [cl |-> Raised(me, out), task |-> <<>>, cache |-> cached]
      [] OTHER ->
            \* execute() and the readers return what the task returned
            [cl |-> C("returned", me.op, "", NoArgs, 0, "", <<>>, NoCounts,
                      out),
             task |-> <<>>, cache |-> cached]

\* The task of worker w is over: the worker is free again and the caller
\* that awaits the task goes on with its result or its exception.
deliver(w) ==
    /\ wk[w].pc = "done"
    /\ LET c == wk[w].task.caller
           r == resume(c, cl[c], wk[w].out, ds, cached_table_counts[cl[c].db])
       IN  /\ cl' = [cl EXCEPT ![c] = r.cl]
           /\ queue' = queue \o r.task
           /\ cached_table_counts' =
                [cached_table_counts EXCEPT ![cl[c].db] = r.cache]
    /\ wk' = [wk EXCEPT ![w] = IdleWorker]
    /\ UNCHANGED <<hash, cached_size, ic>>
    /\ UNCHANGED <<ds, connections, conns>>

\* ---------------------------------------------------- the specifications
WorkerStep(w, Faults) ==
    \/ in_thread(w)
    \/ sql_operation_enter(w)
    \/ \E fault \in {NoErr} \cup Faults : sql_operation_run(w, fault)
    \/ \E fault \in {NoErr} \cup Faults : reader_run(w, fault)
    \/ deliver(w)

\* The handles the callers of the concurrent specification query: two
\* files of one name and a memory database.
Served == {"d1", "d2", "d3"}

\* Two callers and two workers: statements and catalog readers on every
\* served database.
Next ==
    \/ \E c \in Callers, d \in Served, a \in FewArgs : execute(c, d, a)
    \/ \E c \in Callers, d \in Served : reader(c, d)
    \/ \E w \in Workers : WorkerStep(w, {LogicError})

Spec == Init /\ [][Next]_vars

\* One caller and one worker: every call of execute() on one database,
\* and table_counts() with every limit on the two databases of one name.
NextSeq ==
    \/ \E a \in AllArgs : execute("c1", "d1", a)
    \/ reader("c1", "d1")
    \/ \E d \in {"d1", "d2"}, limit \in 0..MaxLimit :
            table_counts("c1", d, limit)
    \/ WorkerStep("w1", SpuriousErrors)

SpecSeq == InitSeq /\ [][NextSeq]_vars

\* Two callers and two workers: overlapping table_counts() calls on a
\* database that is not mutable, with a limit that interrupts the count of
\* its large table and with one that does not, and on a mutable database;
\* with and without inspect data.
InitTC ==
    \E cfg \in Configs :
        /\ cfg.page_size = MaxPage
        /\ cfg.max_returned_rows = MaxPage
        /\ cfg.sql_time_limit_ms = MaxLimit
        /\ Constructed(cfg)

NextTC ==
    \/ \E c \in Callers, limit \in {1, MaxLimit} : table_counts(c, "d1", limit)
    \/ \E c \in Callers : table_counts(c, "d2", MaxLimit)
    \/ \E w \in Workers : in_thread(w)
    \/ \E w \in Workers : sql_operation_enter(w)
    \/ \E w \in Workers : sql_operation_run(w, NoErr)
    \/ \E w \in Workers : deliver(w)

SpecTC == InitTC /\ [][NextTC]_vars

\* The schema introspection calls, each on every answer of the host and the
\* engine.
label_column_for_table(explicit, columns) ==
    /\ ic = NoCall
    /\ ic' = Call("label_column_for_table",
                  [explicit |-> explicit, columns |-> columns],
                  label_column(explicit, columns))
    /\ UNCHANGED <<hash, cached_size, ds, connections, conns, queue, wk, cl,
                   cached_table_counts>>

hidden_table_names(fts, has_spatialite, metadata_hidden, table_names) ==
    /\ ic = NoCall
    /\ ic' = Call("hidden_table_names",
                  [fts |-> fts, has_spatialite |-> has_spatialite,
                   metadata_hidden |-> metadata_hidden,
                   table_names |-> table_names],
                  Return(hidden_tables_of(fts, has_spatialite,
                                          metadata_hidden, table_names)))
    /\ UNCHANGED <<hash, cached_size, ds, connections, conns, queue, wk, cl,
                   cached_table_counts>>

get_table_definition(sch, table, type_) ==
    /\ ic = NoCall
    /\ ic' = Call("get_table_definition",
                  [schema |-> sch, table |-> table, type_ |-> type_],
                  table_definition(sch, table, type_))
    /\ UNCHANGED <<hash, cached_size, ds, connections, conns, queue, wk, cl,
                   cached_table_counts>>

\* The caller has the result of its introspection call.
introspection_done ==
    /\ ic # NoCall
    /\ ic' = NoCall
    /\ UNCHANGED <<hash, cached_size, ds, connections, conns, queue, wk, cl,
                   cached_table_counts>>

NextIntro ==
    \/ /\ ic = NoCall
       /\ \E explicit \in LabelChoices, columns \in Columns :
            label_column_for_table(explicit, columns)
    \/ /\ ic = NoCall
       /\ \E table_names \in Catalogs : \E V \in SUBSET Range(table_names),
            has_spatialite \in BOOLEAN, metadata_hidden \in MetadataHidden :
                hidden_table_names(Filter(table_names, V, TRUE),
                    has_spatialite, metadata_hidden, table_names)
    \/ /\ ic = NoCall
       /\ \E sch \in Schemas, table \in {"t", "u", "v", "missing"},
            type_ \in {"table", "view"} :
                get_table_definition(sch, table, type_)
    \/ introspection_done

SpecIntro == Init /\ [][NextIntro]_vars

\* ------------------------------------------------------------ properties
\* The workers whose task is an execute() whose statement has run.
Ran == {w \in Workers :
            wk[w].pc = "done" /\ wk[w].task.fn = "sql" /\ wk[w].conn # NoConn}
\* The arguments of the execute() call that worker w serves.
CallArgs(w) == cl[wk[w].task.caller].args
\* The connections that exist.
Conns ==
    UNION {{ConnId(w, n, i) : i \in 1..Len(conns[w][n])} :
                w \in Workers, n \in Names}
\* The workers that hold a connection for their task.
Holding == {w \in Workers : wk[w].conn # NoConn}

\* C1: with truncate and a non-zero max_returned_rows M, the result holds
\* the first min(n, cap) of the statement's n rows and is truncated exactly
\* when n > cap, where cap is M+1 if M equals the effective page size and M
\* otherwise; without truncate, or with M = 0, the result holds all n rows
\* and is not truncated.
C1_FetchPolicy ==
    \A w \in Ran :
        wk[w].out.kind = "return" =>
            LET a   == CallArgs(w)
                M   == ds.max_returned_rows
                all == wk[w].eng.rows
                n   == Len(all)
                eff == effective_page_size(a.page_size, ds.page_size)
                cap == IF M = eff THEN M + 1 ELSE M
            IN  IF a.truncate /\ M # 0
                THEN /\ wk[w].out.rows = SubSeq(all, 1, Min(n, cap))
                     /\ wk[w].out.truncated = (n > cap)
                ELSE /\ wk[w].out.rows = all
                     /\ wk[w].out.truncated = FALSE

\* The execute() calls with truncate whose page size equals
\* max_returned_rows.
FullPage == {w \in Ran :
                /\ wk[w].out.kind = "return"
                /\ CallArgs(w).truncate
                /\ wk[w].task.page_size = ds.max_returned_rows}

\* C2 as stated: when max_returned_rows equals the page size (both M),
\* execute with truncate returns all M rows, not truncated, for a statement
\* of exactly M rows, and exactly M rows, truncated, for every statement of
\* M+1 or more rows.  (Stated here for M >= 1 only.)
C2_FullPageAsStated ==
    \A w \in FullPage :
        LET M   == ds.max_returned_rows
            all == wk[w].eng.rows
        IN  M >= 1 =>
            /\ Len(all) = M =>
                wk[w].out.rows = all /\ ~wk[w].out.truncated
            /\ Len(all) >= M + 1 =>
                Len(wk[w].out.rows) = M /\ wk[w].out.truncated

\* C2 amended: when max_returned_rows equals the page size (both M >= 1),
\* execute with truncate returns all the rows, not truncated, for a
\* statement of at most M+1 rows, and exactly the first M+1 rows, truncated,
\* for every statement of M+2 or more rows.
C2_FullPage ==
    \A w \in FullPage :
        LET M   == ds.max_returned_rows
            all == wk[w].eng.rows
        IN  M >= 1 =>
            /\ Len(all) <= M + 1 =>
                wk[w].out.rows = all /\ ~wk[w].out.truncated
            /\ Len(all) >= M + 2 =>
                /\ wk[w].out.rows = SubSeq(all, 1, M + 1)
                /\ wk[w].out.truncated

\* A full-page call, M >= 1, of a statement of M+2 or more rows has returned
\* M+1 rows, truncated.
C2_Witness ==
    \E w \in FullPage :
        /\ ds.max_returned_rows >= 1
        /\ Len(wk[w].eng.rows) >= ds.max_returned_rows + 2
        /\ Len(wk[w].out.rows) = ds.max_returned_rows + 1
        /\ wk[w].out.truncated

\* ---- C3
\* C3: no deadline is armed on a connection of a worker that is not inside
\* the with block of sql_operation_in_thread: once a call's task has returned
\* its result, raised QueryInterrupted or raised another error, and until
\* the worker arms the next call's deadline, every connection the worker
\* uses is disarmed.
C3_Disarmed ==
    \A w \in Workers :
        wk[w].pc # "armed" =>
            /\ \A n \in Names : \A i \in 1..Len(conns[w][n]) :
                    conns[w][n][i].handler = NoInt
            /\ wk[w].conn # NoConn => ConnRec(wk[w].conn).handler = NoInt

\* One worker's call has raised QueryInterrupted and the other's has raised
\* another engine error, and the connection of each is disarmed.
C3_Witness ==
    \E w, v \in Ran :
        /\ wk[w].out.exc.type = "QueryInterrupted"
        /\ wk[v].out.exc = Plain(LogicError)
        /\ ConnRec(wk[w].conn).handler = NoInt
        /\ ConnRec(wk[v].conn).handler = NoInt

\* ---- C4
\* C4: the deadline armed for an execute call is the global limit when no
\* custom_time_limit is supplied and min(global limit, custom_time_limit)
\* for every supplied value, and never exceeds the global limit; a statement
\* that runs past it fails with QueryInterrupted and one that finishes
\* within it returns its result (when the engine injects no error).
C4_Deadline ==
    /\ \A w \in Workers :
        wk[w].pc = "armed" =>
            LET ctl == wk[w].task.custom_time_limit
                g   == ds.sql_time_limit_ms
            IN  /\ ConnRec(wk[w].conn).handler =
                        <<IF ctl = NoInt THEN g ELSE Min(g, ctl[1])>>
                /\ ConnRec(wk[w].conn).handler[1] <= g
    /\ \A w \in Ran :
            LET ctl == wk[w].task.custom_time_limit
                g   == ds.sql_time_limit_ms
                ms  == IF ctl = NoInt THEN g ELSE Min(g, ctl[1])
            IN  /\ wk[w].eng.cost > ms =>
                    wk[w].out.exc.type = "QueryInterrupted"
                /\ (wk[w].eng.cost <= ms /\ wk[w].eng.err = NoErr) =>
                    wk[w].out.kind = "return"

\* ---- C5
\* C5: an engine error that signals interruption is surfaced as
\* QueryInterrupted carrying the error, the SQL and the parameters of the
\* call; every other engine error is raised unchanged, printed or not; an
\* engine error never ends in a result, and a run without error does.
C5_Classified ==
    \A w \in Ran :
        LET e == wk[w].eng.err
            a == CallArgs(w)
        IN  IF e = NoErr THEN wk[w].out.kind = "return"
            ELSE /\ wk[w].out.kind = "raise"
                 /\ wk[w].out.exc =
                        IF e = Interrupted
                        THEN QueryInterrupted(e, a.sql, a.params)
                        ELSE Plain(e)

\* A call with parameters was interrupted and has raised QueryInterrupted
\* with its statement and its parameters.
C5_Witness ==
    \E w \in Ran :
        /\ wk[w].eng.err = Interrupted
        /\ wk[w].out.exc.type = "QueryInterrupted"
        /\ wk[w].out.exc.params = "p1"
        /\ wk[w].out.exc.sql = user_sql(2, MaxCost)

\* ---- C6
\* C6: table_counts always succeeds: whatever queries of the call fail or
\* are interrupted, it returns a map with one entry per table of the
\* database, each the table's row count or unknown.  (A failure of the
\* connection hook is left aside.)
C6_AlwaysSucceeds ==
    \A c \in Callers :
        (/\ cl[c].pc = "returned"
         /\ cl[c].op = "table_counts"
         /\ cl[c].ret.exc # Plain(HookError)) =>
            /\ cl[c].ret.kind = "return"
            /\ DOMAIN cl[c].counts = Range(Catalog[cl[c].db])
            /\ \A t \in DOMAIN cl[c].counts :
                    cl[c].counts[t] \in {NoInt, <<RowCount(cl[c].db, t)>>}

\* ---- C7
\* C7: for each (worker, database) pair, a task runs on the connection
\* cached for the pair, which that worker opened for that database when it
\* ran its first task for it; the cache entry is written at most once.
C7_Affinity ==
    /\ \A w \in Workers, n \in Names : Len(conns[w][n]) <= 1
    /\ \A w \in Holding :
        LET k == wk[w].conn
        IN  /\ k = connections[w][name(wk[w].task.db)]
            /\ ConnRec(k).worker = w
            /\ ConnRec(k).db = wk[w].task.db

\* ---- C8
\* C8: a connection is used only by the worker that opened it; no
\* connection is in use by two workers, so two tasks that run at the same
\* time, on the same database or not, run on two connections.
C8_Exclusive ==
    /\ \A w \in Holding : ConnRec(wk[w].conn).worker = w
    /\ \A w, v \in Holding : w # v => wk[w].conn # wk[v].conn

\* Two workers run statements on the same database at the same time, each
\* on its own connection.
C8_Witness ==
    \E w, v \in Holding :
        /\ w # v
        /\ wk[w].pc = "armed" /\ wk[v].pc = "armed"
        /\ wk[w].task.db = wk[v].task.db
        /\ wk[w].conn # wk[v].conn

\* ---- C9
\* C9: a connection is scoped to one Database: no task of one handle runs
\* on a connection that was opened by another handle.
C9_Scoped ==
    \A w \in Holding : \A d \in Databases :
        ConnRec(wk[w].conn).db = d => wk[w].task.db = d

\* ---- C10
\* C10: the prepare_connection hook has been invoked exactly once on every
\* connection that was opened and stored, with the name of the database it
\* was opened for, and before any statement or catalog reader ran on it;
\* reusing the connection does not invoke it again.
C10_HookOnce ==
    \A k \in Conns :
        /\ ConnRec(k).hook_calls = 1
        /\ ConnRec(k).hook_name = name(ConnRec(k).db)
        /\ ConnRec(k).hook_first

\* A worker is about to reuse a connection that has already run a task, and
\* the hook was invoked on it once.
C10_Witness ==
    \E w \in Holding :
        /\ wk[w].pc = "fn"
        /\ ConnRec(wk[w].conn).used
        /\ ConnRec(wk[w].conn).hook_calls = 1

\* ---- C11
\* C11 as stated: hash, cached_size and cached_table_counts are set only
\* during construction and only for databases that are not mutable; in
\* every state each of the three has the value it had when construction
\* finished.
C11_SetAtConstruction ==
    \A d \in Databases :
        /\ hash[d] = init_hash(d)
        /\ cached_size[d] = init_cached_size(d)
        /\ cached_table_counts[d] = init_cached_table_counts(d, ds)
        /\ is_mutable[d] =>
            /\ hash[d] = NoHash
            /\ cached_size[d] = NoInt
            /\ cached_table_counts[d] = <<>>

\* C11 amended: hash and cached_size are set only during construction and
\* only for databases that are not mutable, and keep the value they had
\* when construction finished; cached_table_counts of a mutable database
\* stays absent, and cached_table_counts that construction seeded from the
\* inspect data keeps that value.  (cached_table_counts that construction
\* left absent on a database that is not mutable is stored by table_counts.)
C11_MetadataStable ==
    \A d \in Databases :
        /\ hash[d] = init_hash(d)
        /\ cached_size[d] = init_cached_size(d)
        /\ is_mutable[d] =>
            /\ hash[d] = NoHash
            /\ cached_size[d] = NoInt
            /\ cached_table_counts[d] = <<>>
        /\ init_cached_table_counts(d, ds) # <<>> =>
            cached_table_counts[d] = init_cached_table_counts(d, ds)

\* A table_counts call on the seeded database has returned the seeded
\* counts, and one on the mutable database has returned counts it computed.
C11_Witness ==
    /\ init_cached_table_counts("d1", ds) # <<>>
    /\ \E c, e \in Callers :
        /\ cl[c].pc = "returned" /\ cl[c].op = "table_counts"
        /\ cl[c].db = "d1" /\ cl[c].phase = "cached"
        /\ cl[e].pc = "returned" /\ cl[e].op = "table_counts"
        /\ cl[e].db = "d2" /\ cl[e].phase = "computed"
        /\ cl[e].counts # NoCounts

\* ---- C12
\* The worker that has finished the task caller c awaits.
Finished(c) == CHOOSE w \in Workers : wk[w].pc = "done" /\ wk[w].task.caller = c
\* The task that executes statement sql for a table_counts call of c on d.
CountsTask(c, d, sql, ctl) == execute_task(c, d, DefaultArgs(sql, ctl), ds)

\* One step of a table_counts call of caller c on a mutable database: the
\* call starts with the table listing whatever cached_table_counts holds;
\* the listing is followed by the count of its first table; each count is
\* followed by the count of the next table, until every listed table has
\* its entry.
C12_Step(c) ==
    LET me  == cl[c]
        me2 == cl'[c]
    IN  (me2 # me /\ me2.op = "table_counts" /\ is_mutable[me2.db]) =>
            IF me.pc # "await"
            THEN /\ me2.phase = "names"
                 /\ queue' = Append(queue,
                        CountsTask(c, me2.db, table_names_sql, NoInt))
            ELSE IF wk[Finished(c)].out.kind = "raise" /\ me2.phase = "raised"
            THEN queue' = queue
            ELSE LET rest == IF me.phase = "names"
                             THEN wk[Finished(c)].out.rows
                             ELSE Tail(me.tables)
                     done == IF me.phase = "names" THEN {}
                             ELSE DOMAIN me.counts \cup {Head(me.tables)}
                 IN  /\ DOMAIN me2.counts = done
                     /\ IF rest = <<>>
                        THEN me2.phase = "computed" /\ queue' = queue
                        ELSE /\ me2.phase = "count"
                             /\ me2.tables = rest
                             /\ Head(rest) \notin done
                             /\ queue' = Append(queue,
                                    CountsTask(c, me2.db,
                                        count_sql(Head(rest)), <<me2.limit>>))

\* C12: for a mutable database table_counts never reads and never writes
\* cached_table_counts: cached_table_counts stays absent, no call returns
\* cached counts, and every call runs the table listing and then one count
\* query per listed table.
C12_MutableFresh ==
    /\ [](\A d \in Databases : is_mutable[d] =>
            /\ cached_table_counts[d] = <<>>
            /\ \A c \in Callers :
                (cl[c].op = "table_counts" /\ cl[c].db = d) =>
                    cl[c].phase # "cached")
    /\ [][\A c \in Callers : C12_Step(c)]_vars

\* Both callers have computed the counts of the mutable database, and its
\* cached_table_counts is absent.
C12_Witness ==
    /\ cached_table_counts["d2"] = <<>>
    /\ \A c \in Callers :
        /\ cl[c].pc = "returned" /\ cl[c].op = "table_counts"
        /\ cl[c].db = "d2" /\ cl[c].phase = "computed"
        /\ cl[c].counts # NoCounts

\* ---- C13
\* C13: for a memory database, mutable or not, no content hash and no
\* cached size are ever computed (hash and cached_size stay absent), and
\* size always reports 0.
C13_MemoryUncached ==
    \A d \in Databases :
        is_memory[d] =>
            /\ hash[d] = NoHash
            /\ cached_size[d] = NoInt
            /\ size(d) = 0

\* ---- C14
\* A label_column_for_table call with no label column configured.
Unlabelled == ic.op = "label_column_for_table" /\ ic.in.explicit \in {None, ""}

\* C14: label_column_for_table returns the explicitly configured label
\* column whenever one is configured; otherwise, if the table has a column
\* named name or title, it returns that column, and name when the table has
\* both, for every column order.
C14_NameOrTitle ==
    ic.op = "label_column_for_table" =>
        LET cols == Range(ic.in.columns)
        IN  /\ ~Unlabelled => ic.ret = Return(ic.in.explicit)
            /\ (Unlabelled /\ cols \cap {"name", "title"} # {}) =>
                ic.ret = Return(IF "name" \in cols THEN "name" ELSE "title")

\* ---- C15
\* C15: with no explicit label column and no column named name or title, a
\* table with exactly two columns of which one is named id or pk returns
\* the other column, and every other table returns None; no error is
\* raised.
C15_OtherColumn ==
    LET cols == Range(ic.in.columns)
    IN  (Unlabelled /\ cols \cap {"name", "title"} = {}) =>
            /\ ic.ret.kind = "return"
            /\ IF Len(ic.in.columns) = 2 /\ cols \cap {"id", "pk"} # {}
               THEN \E key \in cols \cap {"id", "pk"} :
                        cols = {key, ic.ret.value}
               ELSE ic.ret.value = None

\* ---- C16
\* s is a prefix of t.
IsPrefix(s, t) == \E k \in 0..Len(t) : SubSeq(t, 1, k) = s
Reverse(seq) == [i \in 1..Len(seq) |-> seq[Len(seq) + 1 - i]]
\* The seed names of the hidden_table_names call.
Seeds ==
    Range(ic.in.fts)
    \cup (IF ic.in.has_spatialite
          THEN Range(SpatialiteTables)
                \cup {t \in Range(ic.in.table_names) : t[1] = "idx_"}
          ELSE {})
    \cup Range(ic.in.metadata_hidden)

RECURSIVE Split(_)
Split(text) ==
    IF \A i \in 1..Len(text) : text[i] # "\n" THEN <<text>>
    ELSE LET i == CHOOSE i \in 1..Len(text) :
                    text[i] = "\n" /\ \A j \in 1..(i - 1) : text[j] # "\n"
         IN  <<SubSeq(text, 1, i - 1)>> \o Split(SubSeq(text, i + 1, Len(text)))
\* The k-th smallest element of the set S of numbers.
Nth(S, k) == CHOOSE i \in S : Cardinality({j \in S : j < i}) = k - 1

\* C17: get_table_definition returns None, and neither an empty string nor
\* an error, when the catalog has no object of the requested name and
\* kind; otherwise it returns the object's creation SQL followed by the
\* creation SQL of every index on that table whose SQL is not NULL, in
\* catalog order, every statement ended by ';' and the statements joined
\* by newlines.
C17_Definition ==
    ic.op = "get_table_definition" =>
        LET sch   == ic.in.schema
            found == {i \in 1..Len(sch) : /\ sch[i].name = ic.in.table
                                          /\ sch[i].type = ic.in.type_}
            idx   == {i \in 1..Len(sch) : /\ sch[i].type = "index"
                                          /\ sch[i].tbl_name = ic.in.table
                                          /\ sch[i].sql # <<>>}
        IN  /\ ic.ret.kind = "return"
            /\ IF found = {} THEN ic.ret.value = NoInt
               ELSE /\ ic.ret.value # NoInt
                    /\ LET stmts == Split(ic.ret.value[1])
                       IN  /\ Len(stmts) = 1 + Cardinality(idx)
                           /\ stmts[1] =
                                Append(sch[Nth(found, 1)].sql[1], ";")
                           /\ \A k \in 1..Cardinality(idx) :
                                stmts[k + 1] =
                                    Append(sch[Nth(idx, k)].sql[1], ";")

\* The definition of table t, which has three indexes of which one has no
\* SQL, is its creation SQL and that of the two other indexes, in catalog
\* order.
C17_Witness ==
    /\ ic.op = "get_table_definition"
    /\ ic.in.table = "t" /\ ic.in.type_ = "table"
    /\ Len(ic.in.schema) = 4
    /\ ic.in.schema[1].name = "i2" /\ ic.in.schema[4].name = "i1"
    /\ ic.ret.value =
        << <<"create table t", ";", "\n", "create index i2", ";", "\n",
             "create index i1", ";">> >>

\* ---- C18
\* C18: once cached_table_counts of a database that is not mutable is
\* present, it keeps its value for the life of the handle (a table recorded
\* as unknown stays unknown), and every table_counts call that starts
\* returns that map at once, whatever its limit, and dispatches no query.
C18_CachedForLife ==
    [][\A d \in Databases :
        (~is_mutable[d] /\ cached_table_counts[d] # <<>>) =>
            /\ cached_table_counts'[d] = cached_table_counts[d]
            /\ \A c \in Callers :
                (/\ cl[c].pc # "await"
                 /\ cl'[c] # cl[c]
                 /\ cl'[c].op = "table_counts"
                 /\ cl'[c].db = d) =>
                    /\ cl'[c].pc = "returned"
                    /\ cl'[c].counts = cached_table_counts[d][1]
                    /\ queue' = queue]_vars

\* ---- C19
\* The deadline of the execute call that worker w serves.
OwnDeadline(w) ==
    time_limit_ms(ds.sql_time_limit_ms, wk[w].task.custom_time_limit)

\* C19: at most one task runs on a connection at any time; a deadline armed
\* on a connection is the deadline of the one execute call whose statement
\* runs on it; and a statement that was interrupted had run past the
\* deadline of its own call.
C19_OwnDeadline ==
    /\ \A k \in Conns :
        /\ Cardinality({w \in Holding : /\ wk[w].conn = k
                                        /\ wk[w].pc \in {"fn", "armed"}}) <= 1
        /\ ConnRec(k).handler # NoInt =>
            \E w \in Holding :
                /\ wk[w].conn = k
                /\ wk[w].pc = "armed"
                /\ ConnRec(k).handler = <<OwnDeadline(w)>>
    /\ \A w \in Ran :
        wk[w].eng.err = Interrupted => wk[w].eng.cost > OwnDeadline(w)

\* One call's statement was interrupted at its custom time limit while the
\* statement of another call on the same database runs under the global
\* limit.
C19_Witness ==
    \E w \in Ran, v \in Holding :
        /\ wk[w].eng.err = Interrupted
        /\ wk[v].pc = "armed"
        /\ wk[v].task.db = wk[w].task.db
        /\ OwnDeadline(w) < OwnDeadline(v)
        /\ ConnRec(wk[v].conn).handler = <<ds.sql_time_limit_ms>>

====
